---------------------------- MODULE Spec2Model ----------------------------
(***************************************************************************)
(* A model of the postgres_plugin Airflow plugin: the Secrets Manager      *)
(* hook, the Postgres hook built on it, and the operators that move data   *)
(* between Postgres databases and S3.  Every operator is a sequential      *)
(* program; each action below is one statement group of its execute().     *)
(***************************************************************************)
EXTENDS Integers, Sequences, FiniteSets, TLC

VARIABLES
    task,               \* the operator whose execute() is running
    pc,                 \* position inside execute()
    outcome,            \* "running", "returned" or "raised"
    exc,                \* the exception that left execute(), if any
    raised_at,          \* the statement that raised it
    secrets,            \* Secrets Manager: secret name -> response of get_secret_value
    database,           \* PostgresWithSecretsManagerCredentialsOperator.database
    host,               \* PostgresWithSecretsManagerCredentialsOperator.host
    src_postgres_conn,  \* dict argument of the transfer operators (mutated by pop)
    dest_postgres_conn, \* dict argument of PostgresToPostgresOperator
    pg_preoperator,     \* optional SQL, None when not given
    pg_postoperator,    \* optional SQL, None when not given
    src_pg,             \* hook built for the source
    dest_pg,            \* hook built for the destination
    last_secret,        \* what the latest get_secret call did
    opened,             \* connections opened by psycopg2.connect, in order
    calls,              \* calls made on the databases and external tools, in order
    fetched,            \* rows returned by fetchall
    src_given,          \* src_postgres_conn as the caller passed it
    cause,              \* the exception first raised (exc.__context__ when wrapped)
    postgres_conn,      \* dict argument of S3ToPostgresOperator
    s3_content,         \* the text of the S3 object that read_key returns
    file_read,          \* the part of the temporary file not read yet
    autocommit,         \* pgsql_conn.autocommit
    commits,            \* pgsql_conn.commit() calls that succeeded
    loaded,             \* rows copy_from put into the destination table
    durable,            \* rows of the destination table that are committed
    compress_file,      \* PostgresToS3Operator.compress_file
    dest_s3_replace,    \* PostgresToS3Operator.dest_s3_replace
    bucket,             \* the keys present in the S3 bucket
    uploads,            \* load_file calls that succeeded: key and local file
    module_globals,     \* names bound in postgres_dump_operator's namespace
    aws_secret_key,     \* PostgresDumpOperator.aws_secret_key
    disk,               \* the temporary files present on the local disk
    environ,            \* os.environ['PGPASSWORD'], None when unset
    bash_command,       \* the command line handed to BashHook
    s3_key_name,        \* PostgresDumpOperator.s3_key_name
    listing,            \* what list_keys returned
    deletes             \* delete_file calls: file and what os.remove did

hookVars == <<src_pg, dest_pg>>
argVars  == <<secrets, database, host, src_postgres_conn, dest_postgres_conn,
              pg_preoperator, pg_postoperator, src_given, postgres_conn, s3_content,
              compress_file, dest_s3_replace>>
ctlVars  == <<task, pc, outcome, exc, raised_at, cause>>
loadVars == <<file_read, autocommit, commits, loaded, durable>>
s3Vars   == <<bucket, uploads>>
dumpVars == <<module_globals, aws_secret_key, disk, environ, bash_command,
              s3_key_name, listing, deletes>>
vars == <<ctlVars, argVars, hookVars, last_secret, opened, calls, fetched, loadVars,
          s3Vars, dumpVars>>

-----------------------------------------------------------------------------
(* Python values.  One record shape for every value, so that values of     *)
(* different Python types can be compared.                                 *)

Str(s)  == [t |-> "str",  s |-> s,  n |-> 0]
Num(k)  == [t |-> "int",  s |-> "", n |-> k]
NoneV   == [t |-> "none", s |-> "", n |-> 0]
\* a bare identifier in a literal text: None, or JSON's null
Name(s) == [t |-> "name", s |-> s,  n |-> 0]

\* bool(v)
Truthy(v) ==
    CASE v.t = "none" -> FALSE
      [] v.t = "int"  -> v.n # 0
      [] v.t = "str"  -> v.s # ""
      [] OTHER        -> TRUE

\* a or b
Or(a, b) == IF Truthy(a) THEN a ELSE b

Exc(cls, msg) == [cls |-> cls, msg |-> msg]
NoExc == Exc("", "")

\* d.pop(k, None): the value and the dict left behind
PopValue(d, k) == IF k \in DOMAIN d THEN d[k] ELSE NoneV
PopRest(d, k)  == [x \in DOMAIN d \ {k} |-> d[x]]

\* d[k] for a dict with the key possibly absent
HasKey(d, k) == k \in DOMAIN d

-----------------------------------------------------------------------------
(* AwsSecretsManagerHook                                                   *)

\* the error codes the except clause names, and two it does not
ClientErrorCodes ==
    {"ResourceNotFoundException", "InvalidRequestException",
     "InvalidParameterException", "AccessDeniedException", "DecryptionFailure"}

OkString(raw) == [kind |-> "ok", code |-> "", has_string |-> TRUE,  raw |-> raw]
OkBinary(raw) == [kind |-> "ok", code |-> "", has_string |-> FALSE, raw |-> raw]
ClientError(code) ==
    [kind |-> "ClientError", code |-> code, has_string |-> FALSE, raw |-> <<>>]
\* a failure of the client that is no ClientError (no route to the endpoint)
EndpointError ==
    [kind |-> "EndpointConnectionError", code |-> "", has_string |-> FALSE, raw |-> <<>>]

\* What get_secret hands to its caller for a response of the service.
\* A ClientError is logged and printed; the except clause ends without a
\* raise or a return, so the method returns None.
get_secret(resp) ==
    IF resp.kind = "EndpointConnectionError"
    THEN [status |-> "raise", t |-> "none", raw |-> <<>>,
          exc |-> Exc("EndpointConnectionError", "endpoint")]
    ELSE IF resp.kind = "ClientError"
    THEN [status |-> "return", t |-> "none", raw |-> <<>>, exc |-> NoExc]
    ELSE IF resp.has_string
         THEN [status |-> "return", t |-> "str",   raw |-> resp.raw, exc |-> NoExc]
         ELSE [status |-> "return", t |-> "bytes", raw |-> resp.raw, exc |-> NoExc]

-----------------------------------------------------------------------------
(* PostgresWithSecretsManagerCredentialsHook                               *)

\* __init__: the four keyword arguments, each None when not given
Hook(conn_id, secret_name, schema_kw, host_kw) ==
    [aws_conn_id |-> conn_id, aws_secret_name |-> secret_name,
     schema |-> schema_kw, host |-> host_kw]

\* ast.literal_eval applied to what get_secret returned.  Only a str is
\* parsed; None and bytes are no literal node.  Inside the text the only
\* bare identifiers that are literals are None, True and False.
literal_eval_fails(ret) ==
    \/ ret.t # "str"
    \/ \E k \in DOMAIN ret.raw :
          ret.raw[k].t = "name" /\ ret.raw[k].s \notin {"None", "True", "False"}

literal_eval(ret) ==
    [k \in DOMAIN ret.raw |->
        IF ret.raw[k].t = "name" THEN NoneV ELSE ret.raw[k]]

\* the keys get_conn subscripts, in evaluation order; dbname and host are
\* read only when the override is falsy (the right operand of `or`)
KeysRead(hook) ==
    (IF Truthy(hook.schema) THEN <<>> ELSE <<"dbname">>) \o
    (IF Truthy(hook.host) THEN <<>> ELSE <<"host">>) \o
    <<"port", "username", "password">>

RECURSIVE FirstMissing(_, _)
FirstMissing(keys, d) ==
    IF keys = <<>> THEN ""
    ELSE IF ~HasKey(d, Head(keys)) THEN Head(keys)
    ELSE FirstMissing(Tail(keys), d)

DefaultPort == 5432

conn_args(hook, key) ==
    [host     |-> Or(hook.host, key["host"]),
     user     |-> key["username"],
     password |-> key["password"],
     dbname   |-> Or(hook.schema, key["dbname"]),
     port     |-> Or(key["port"], Num(DefaultPort))]

NoConn == [host |-> NoneV, user |-> NoneV, password |-> NoneV,
           dbname |-> NoneV, port |-> NoneV]

\* get_conn of a hook, given the service's response for its secret and
\* whether the server accepts the connection
get_conn(hook, resp, connect_ok) ==
    LET ret == get_secret(resp) IN
    IF ret.status = "raise"
    THEN [status |-> "raise", conn |-> NoConn, exc |-> ret.exc]
    ELSE IF literal_eval_fails(ret)
    THEN [status |-> "raise", conn |-> NoConn,
          exc |-> Exc("ValueError", "malformed node or string")]
    ELSE LET key == literal_eval(ret)
             missing == FirstMissing(KeysRead(hook), key) IN
         IF missing # ""
         THEN [status |-> "raise", conn |-> NoConn, exc |-> Exc("KeyError", missing)]
         ELSE IF ~connect_ok
         THEN [status |-> "raise", conn |-> NoConn,
               exc |-> Exc("OperationalError", "could not connect to server")]
         ELSE [status |-> "return", conn |-> conn_args(hook, key), exc |-> NoExc]

-----------------------------------------------------------------------------
(* Bounds and the inputs drawn from them                                   *)

MaxRows == 2

SecretNames == {"src_secret", "dest_secret"}

\* the port entry of a secret text: absent (no entry), or one of these
PortTokens == {Num(5432), Num(6543), Num(0), Name("None"), Name("null"), Str("5432")}

\* The text of an RDS secret, as the rotation lambda writes it
BasePayload(who) ==
    [k \in {"username", "password", "engine", "host", "dbname", "dbInstanceIdentifier"} |->
        CASE k = "username" -> Str(who \o "_user")
          [] k = "password" -> Str(who \o "_password")
          [] k = "engine"   -> Str("postgres")
          [] k = "host"     -> Str(who \o "_host")
          [] k = "dbname"   -> Str(who \o "_db")
          [] OTHER          -> Str(who \o "_instance")]

WithPort(d, tok) == [k \in DOMAIN d \cup {"port"} |-> IF k = "port" THEN tok ELSE d[k]]

Payloads(who) == {BasePayload(who)} \cup {WithPort(BasePayload(who), t) : t \in PortTokens}

GoodPayload(who) == WithPort(BasePayload(who), Num(5432))

AllResponses(who) ==
    {ClientError(c) : c \in ClientErrorCodes} \cup {EndpointError}
    \cup {OkString(p) : p \in Payloads(who)} \cup {OkBinary(p) : p \in Payloads(who)}

\* the responses the transfer operators are run against
FewResponses(who) ==
    {OkString(GoodPayload(who)), ClientError("ResourceNotFoundException")}

\* a connection dict: the two mandatory keys, and the optional overrides
ConnDicts(who) ==
    LET base == [k \in {"aws_conn_id", "aws_secret_name"} |->
                    IF k = "aws_conn_id" THEN Str("aws_default")
                    ELSE Str(who \o "_secret")]
        with(d, k, v) == [x \in DOMAIN d \cup {k} |-> IF x = k THEN v ELSE d[x]]
    IN {base, with(base, "database", Str(who \o "_o_db")),
        with(base, "host", Str(who \o "_o_host")),
        with(with(base, "database", Str(who \o "_o_db")), "host", Str(who \o "_o_host"))}

EmptyDict == [k \in {} |-> NoneV]
NoHook == Hook(NoneV, NoneV, NoneV, NoneV)
NoSecretCall == [called |-> FALSE, name |-> "", kind |-> "", status |-> "", t |-> ""]

-----------------------------------------------------------------------------
(* Control                                                                 *)

Goto(l) ==
    /\ pc' = l
    /\ UNCHANGED <<task, outcome, exc, raised_at, cause>>

\* an exception leaves execute()
Raise(e, at) ==
    /\ pc' = "done"
    /\ outcome' = "raised"
    /\ exc' = e
    /\ cause' = e
    /\ raised_at' = at
    /\ UNCHANGED task

\* except Exception as e: raise AirflowException(str(e))
AirflowException(e) == Exc("AirflowException", e.msg)

\* an exception is caught and another one raised in its place
RaiseFrom(wrapper, e, at) ==
    /\ pc' = "done"
    /\ outcome' = "raised"
    /\ exc' = wrapper
    /\ cause' = e
    /\ raised_at' = at
    /\ UNCHANGED task

Return ==
    /\ pc' = "done"
    /\ outcome' = "returned"
    /\ UNCHANGED <<task, exc, raised_at, cause>>

\* hook.get_conn(): the call of get_secret it makes, as the caller sees it
SecretCall(hook) ==
    LET resp == secrets[hook.aws_secret_name.s]
        ret  == get_secret(resp) IN
    [called |-> TRUE, name |-> hook.aws_secret_name.s, kind |-> resp.kind,
     status |-> ret.status, t |-> ret.t]

Connect(hook, ok) == get_conn(hook, secrets[hook.aws_secret_name.s], ok)

Opened(role, conn, closed) == [role |-> role, conn |-> conn, closed |-> closed]

Call(op, ok, n) == [op |-> op, ok |-> ok, n |-> n]

\* DbApiHook.run(sql): open a connection, execute, commit, close.
\* sql_ok: the server accepts the statement.
HookRun(hook, role, op, at, next) ==
    \E connect_ok, sql_ok \in BOOLEAN :
        LET r == Connect(hook, connect_ok) IN
        /\ last_secret' = SecretCall(hook)
        /\ IF r.status = "raise"
           THEN /\ Raise(r.exc, at)
                /\ UNCHANGED <<opened, calls>>
           ELSE /\ opened' = Append(opened, Opened(role, r.conn, TRUE))
                /\ calls' = Append(calls, Call(op, sql_ok, 0))
                /\ IF sql_ok THEN next
                   ELSE Raise(Exc("ProgrammingError", op), at)

-----------------------------------------------------------------------------
(* PostgresWithSecretsManagerCredentialsOperator.execute                   *)

RunBuildHook ==
    /\ task = "run" /\ pc = "run_hook"
    /\ src_pg' = Hook(Str("aws_default"), Str("src_secret"), database, host)
    /\ Goto("run_sql")
    /\ UNCHANGED <<argVars, dest_pg, last_secret, opened, calls, fetched, loadVars, s3Vars, dumpVars>>

RunSql ==
    /\ task = "run" /\ pc = "run_sql"
    /\ HookRun(src_pg, "src", "sql", "run_sql", Return)
    /\ UNCHANGED <<argVars, hookVars, fetched, loadVars, s3Vars, dumpVars>>

InitRun ==
    /\ task = "run" /\ pc = "run_hook"
    /\ secrets \in [SecretNames -> AllResponses("src")]
    /\ secrets["dest_secret"] = ClientError("ResourceNotFoundException")
    /\ database \in {NoneV, Str(""), Str("o_db")}
    /\ host \in {NoneV, Str("o_host")}
    /\ src_postgres_conn = EmptyDict /\ dest_postgres_conn = EmptyDict
    /\ pg_preoperator = NoneV /\ pg_postoperator = NoneV
    /\ postgres_conn = EmptyDict /\ s3_content = <<>>
    /\ compress_file = FALSE /\ dest_s3_replace = FALSE /\ bucket = {}
    /\ module_globals = {}

-----------------------------------------------------------------------------
(* PostgresToPostgresOperator.execute                                      *)

\* the two hooks; both pairs of overrides are popped from src_postgres_conn
P2PBuildHooks ==
    /\ task = "p2p" /\ pc = "p2p_hooks"
    /\ LET d1 == PopRest(src_postgres_conn, "database")
           d2 == PopRest(d1, "host")
           d3 == PopRest(d2, "database")
           d4 == PopRest(d3, "host") IN
       /\ src_pg' = Hook(src_postgres_conn["aws_conn_id"],
                         src_postgres_conn["aws_secret_name"],
                         PopValue(src_postgres_conn, "database"),
                         PopValue(d1, "host"))
       /\ dest_pg' = Hook(dest_postgres_conn["aws_conn_id"],
                          dest_postgres_conn["aws_secret_name"],
                          PopValue(d2, "database"),
                          PopValue(d3, "host"))
       /\ src_postgres_conn' = d4
    /\ Goto("p2p_src_conn")
    /\ UNCHANGED <<secrets, database, host, dest_postgres_conn, pg_preoperator,
                   pg_postoperator, src_given, postgres_conn, s3_content,
                   compress_file, dest_s3_replace,
                   last_secret, opened, calls, fetched, loadVars, s3Vars, dumpVars>>

\* conn = src_pg.get_conn(); cursor = conn.cursor()
P2PSrcConn ==
    /\ task = "p2p" /\ pc = "p2p_src_conn"
    /\ \E connect_ok \in BOOLEAN :
        LET r == Connect(src_pg, connect_ok) IN
        /\ last_secret' = SecretCall(src_pg)
        /\ IF r.status = "raise"
           THEN Raise(r.exc, "get_conn") /\ UNCHANGED opened
           ELSE Goto("p2p_execute") /\ opened' = Append(opened, Opened("src", r.conn, FALSE))
    /\ UNCHANGED <<argVars, hookVars, calls, fetched, loadVars, s3Vars, dumpVars>>

\* cursor.execute(self.sql, self.parameters)
P2PExecute ==
    /\ task = "p2p" /\ pc = "p2p_execute"
    /\ \E ok \in BOOLEAN :
        /\ calls' = Append(calls, Call("execute", ok, 0))
        /\ IF ok THEN Goto("p2p_pre") ELSE Raise(Exc("ProgrammingError", "execute"), "execute")
    /\ UNCHANGED <<argVars, hookVars, last_secret, opened, fetched, loadVars, s3Vars, dumpVars>>

\* a pre-operator that is never run
P2PPreoperator_skipped ==
    /\ task = "p2p" /\ pc = "p2p_pre"
    /\ Goto("p2p_fetch")
    /\ UNCHANGED <<argVars, hookVars, last_secret, opened, calls, fetched, loadVars, s3Vars, dumpVars>>

\* if self.pg_preoperator: dest_pg.run(self.pg_preoperator)
P2PPreoperator ==
    /\ task = "p2p" /\ pc = "p2p_pre"
    /\ IF Truthy(pg_preoperator)
       THEN HookRun(dest_pg, "dest", "pre", "preoperator", Goto("p2p_fetch"))
       ELSE Goto("p2p_fetch") /\ UNCHANGED <<last_secret, opened, calls>>
    /\ UNCHANGED <<argVars, hookVars, fetched, loadVars, s3Vars, dumpVars>>

\* an empty result that is not recognised as empty
NoRowsFetched_never(total_rows) == FALSE

\* if total_rows == 0: return
NoRowsFetched(total_rows) == total_rows = 0

\* fetched_cursor = cursor.fetchall(); the empty result returns
P2PFetchall ==
    /\ task = "p2p" /\ pc = "p2p_fetch"
    /\ \E ok \in BOOLEAN, n \in 0..MaxRows :
        /\ calls' = Append(calls, Call("fetchall", ok, IF ok THEN n ELSE 0))
        /\ IF ~ok THEN Raise(Exc("OperationalError", "fetchall"), "fetchall")
                       /\ UNCHANGED fetched
           ELSE /\ fetched' = [i \in 1..n |-> i]
                /\ IF NoRowsFetched(n) THEN Return ELSE Goto("p2p_insert")
    /\ UNCHANGED <<argVars, hookVars, last_secret, opened, loadVars, s3Vars, dumpVars>>

\* dest_pg.insert_rows(table=self.pg_table, rows=fetched_cursor)
P2PInsertRows ==
    /\ task = "p2p" /\ pc = "p2p_insert"
    /\ \E connect_ok, ok \in BOOLEAN :
        LET r == Connect(dest_pg, connect_ok) IN
        /\ last_secret' = SecretCall(dest_pg)
        /\ IF r.status = "raise"
           THEN Raise(r.exc, "insert_rows") /\ UNCHANGED <<opened, calls>>
           ELSE /\ opened' = Append(opened, Opened("dest", r.conn, TRUE))
                /\ calls' = Append(calls, Call("insert_rows", ok, Len(fetched)))
                /\ IF ok THEN Goto("p2p_post")
                   ELSE Raise(Exc("IntegrityError", "insert_rows"), "insert_rows")
    /\ UNCHANGED <<argVars, hookVars, fetched, loadVars, s3Vars, dumpVars>>

\* if self.pg_postoperator: dest_pg.run(self.pg_postoperator)
P2PPostoperator ==
    /\ task = "p2p" /\ pc = "p2p_post"
    /\ IF Truthy(pg_postoperator)
       THEN HookRun(dest_pg, "dest", "post", "postoperator", Return)
       ELSE Return /\ UNCHANGED <<last_secret, opened, calls>>
    /\ UNCHANGED <<argVars, hookVars, fetched, loadVars, s3Vars, dumpVars>>

InitP2P ==
    /\ task = "p2p" /\ pc = "p2p_hooks"
    /\ secrets \in [SecretNames -> FewResponses("src") \cup FewResponses("dest")]
    /\ secrets["src_secret"] \in FewResponses("src")
    /\ secrets["dest_secret"] \in FewResponses("dest")
    /\ database = NoneV /\ host = NoneV
    /\ src_postgres_conn \in ConnDicts("src")
    /\ dest_postgres_conn \in ConnDicts("dest")
    /\ pg_preoperator \in {NoneV, Str("pre_sql")}
    /\ pg_postoperator \in {NoneV, Str("post_sql")}
    /\ postgres_conn = EmptyDict /\ s3_content = <<>>
    /\ compress_file = FALSE /\ dest_s3_replace = FALSE /\ bucket = {}
    /\ module_globals = {}

-----------------------------------------------------------------------------
(* Text files                                                              *)

MaxFileLen == 7

NL == "\n"
Chars == {"a", NL}

RECURSIVE SeqsUpTo(_)
SeqsUpTo(n) ==
    IF n = 0 THEN {<<>>}
    ELSE LET shorter == SeqsUpTo(n - 1) IN
         shorter \cup {Append(t, c) : t \in {x \in shorter : Len(x) = n - 1}, c \in Chars}

Texts == SeqsUpTo(MaxFileLen)

\* the length of the first line of a text, its newline included
RECURSIVE FirstLineLen(_)
FirstLineLen(text) ==
    IF text = <<>> THEN 0
    ELSE IF Head(text) = NL THEN 1
    ELSE 1 + FirstLineLen(Tail(text))

\* a header that is not skipped
SkipNoLine(text) == text

\* next(file_read): the file object after one line has been read from it
SkipLine(text) == SubSeq(text, FirstLineLen(text) + 1, Len(text))

\* a line without its newline
Chomp(line) ==
    IF line # <<>> /\ line[Len(line)] = NL THEN SubSeq(line, 1, Len(line) - 1) ELSE line

\* COPY ... FROM STDIN in text format: one row per line of the stream
RECURSIVE CopyRows(_)
CopyRows(stream) ==
    IF stream = <<>> THEN <<>>
    ELSE <<Chomp(SubSeq(stream, 1, FirstLineLen(stream)))>>
            \o CopyRows(SubSeq(stream, FirstLineLen(stream) + 1, Len(stream)))

-----------------------------------------------------------------------------
(* S3ToPostgresOperator.execute                                            *)

\* temp_file_s3.write(s3.read_key(...)); flush; open the file for reading
S3LoadReadKey ==
    /\ task = "from_s3" /\ pc = "load_read_key"
    /\ \E ok \in BOOLEAN :
        IF ok
        THEN /\ file_read' = s3_content
             /\ Goto("load_skip")
        ELSE /\ RaiseFrom(Exc("AirflowException", "Error: " \o "read_key"),
                          Exc("ClientError", "read_key"), "read_key")
             /\ UNCHANGED file_read
    /\ UNCHANGED <<argVars, hookVars, last_secret, opened, calls, fetched,
                   autocommit, commits, loaded, durable, s3Vars, dumpVars>>

\* next(file_read)
S3LoadSkipHeader ==
    /\ task = "from_s3" /\ pc = "load_skip"
    /\ IF file_read = <<>>
       THEN Raise(Exc("StopIteration", ""), "next") /\ UNCHANGED file_read
       ELSE file_read' = SkipLine(file_read) /\ Goto("load_conn")
    /\ UNCHANGED <<argVars, hookVars, last_secret, opened, calls, fetched,
                   autocommit, commits, loaded, durable, s3Vars, dumpVars>>

\* the value assigned to pgsql_conn.autocommit
AutocommitSetting == TRUE

\* pgsql = hook(schema=self.postgres_conn['database']); pgsql_conn = pgsql.get_conn();
\* pgsql_conn.autocommit = True; pgsql_cursor = pgsql_conn.cursor()
S3LoadGetConn ==
    /\ task = "from_s3" /\ pc = "load_conn"
    /\ IF ~HasKey(postgres_conn, "database")
       THEN /\ Raise(Exc("KeyError", "database"), "get_conn")
            /\ UNCHANGED <<dest_pg, last_secret, opened, autocommit>>
       ELSE LET h == Hook(postgres_conn["aws_conn_id"], postgres_conn["aws_secret_name"],
                          postgres_conn["database"], NoneV) IN
            \E connect_ok \in BOOLEAN :
                LET r == Connect(h, connect_ok) IN
                /\ dest_pg' = h
                /\ last_secret' = SecretCall(h)
                /\ IF r.status = "raise"
                   THEN Raise(r.exc, "get_conn") /\ UNCHANGED <<opened, autocommit>>
                   ELSE /\ opened' = Append(opened, Opened("dest", r.conn, FALSE))
                        /\ autocommit' = AutocommitSetting
                        /\ Goto("load_pre")
    /\ UNCHANGED <<argVars, src_pg, calls, fetched, file_read, commits, loaded, durable, s3Vars, dumpVars>>

\* if self.pg_preoperator is not None: pgsql.run(self.pg_preoperator)
S3LoadPreoperator ==
    /\ task = "from_s3" /\ pc = "load_pre"
    /\ IF pg_preoperator # NoneV
       THEN HookRun(dest_pg, "dest", "pre", "preoperator", Goto("load_copy"))
       ELSE Goto("load_copy") /\ UNCHANGED <<last_secret, opened, calls>>
    /\ UNCHANGED <<argVars, hookVars, fetched, loadVars, s3Vars, dumpVars>>

\* pgsql_cursor.copy_from(file=file_read, ...) inside try/except Exception.
\* COPY is one statement: it loads every row or none; with autocommit on,
\* the server commits it as soon as it succeeds.
S3LoadCopyFrom ==
    /\ task = "from_s3" /\ pc = "load_copy"
    /\ \E ok \in BOOLEAN :
        /\ calls' = Append(calls, Call("copy_from", ok, Len(CopyRows(file_read))))
        /\ IF ok
           THEN /\ loaded' = CopyRows(file_read)
                /\ durable' = IF autocommit THEN CopyRows(file_read) ELSE durable
                /\ file_read' = <<>>
                /\ Goto("load_commit")
           ELSE /\ RaiseFrom(AirflowException(Exc("DataError", "copy_from")),
                             Exc("DataError", "copy_from"), "copy_from")
                /\ UNCHANGED <<loaded, durable, file_read>>
    /\ UNCHANGED <<argVars, hookVars, last_secret, opened, fetched, autocommit, commits, s3Vars, dumpVars>>

\* pgsql_conn.commit(), inside the same try
S3LoadCommit ==
    /\ task = "from_s3" /\ pc = "load_commit"
    /\ \E ok \in BOOLEAN :
        /\ calls' = Append(calls, Call("commit", ok, 0))
        /\ IF ok
           THEN /\ commits' = commits + 1
                /\ durable' = loaded
                /\ Goto("load_post")
           ELSE /\ RaiseFrom(AirflowException(Exc("OperationalError", "commit")),
                             Exc("OperationalError", "commit"), "commit")
                /\ UNCHANGED <<commits, durable>>
    /\ UNCHANGED <<argVars, hookVars, last_secret, opened, fetched, file_read,
                   autocommit, loaded, s3Vars, dumpVars>>

\* if self.pg_postoperator is not None: pgsql.get_first(self.pg_postoperator)[0]
S3LoadPostoperator ==
    /\ task = "from_s3" /\ pc = "load_post"
    /\ IF pg_postoperator # NoneV
       THEN HookRun(dest_pg, "dest", "post", "postoperator", Return)
       ELSE Return /\ UNCHANGED <<last_secret, opened, calls>>
    /\ UNCHANGED <<argVars, hookVars, fetched, loadVars, s3Vars, dumpVars>>

InitS3Load ==
    /\ task = "from_s3" /\ pc = "load_read_key"
    /\ secrets \in [SecretNames -> FewResponses("dest") \cup {ClientError("AccessDeniedException")}]
    /\ secrets["src_secret"] = ClientError("AccessDeniedException")
    /\ secrets["dest_secret"] \in FewResponses("dest")
    /\ database = NoneV /\ host = NoneV
    /\ src_postgres_conn = EmptyDict /\ dest_postgres_conn = EmptyDict
    /\ postgres_conn \in {d \in ConnDicts("dest") : ~HasKey(d, "host")}
    /\ pg_preoperator \in {NoneV, Str("pre_sql")}
    /\ pg_postoperator \in {NoneV, Str("post_sql")}
    /\ s3_content \in Texts
    /\ compress_file = FALSE /\ dest_s3_replace = FALSE /\ bucket = {}
    /\ module_globals = {}

-----------------------------------------------------------------------------
(* PostgresToS3Operator.execute                                            *)

S3Key(base, ext) == [base |-> base, ext |-> ext]
Upload(key, file) == [key |-> key, file |-> file]
DestKey == S3Key("dest_key", "")

\* src_pgsql = hook(schema=self.src_postgres_conn['database']);
\* src_conn = src_pgsql.get_conn(); cursor = src_conn.cursor()
ToS3GetConn ==
    /\ task = "to_s3" /\ pc = "tos3_conn"
    /\ IF ~HasKey(src_postgres_conn, "database")
       THEN /\ Raise(Exc("KeyError", "database"), "get_conn")
            /\ UNCHANGED <<src_pg, last_secret, opened>>
       ELSE LET h == Hook(src_postgres_conn["aws_conn_id"],
                          src_postgres_conn["aws_secret_name"],
                          src_postgres_conn["database"], NoneV) IN
            \E connect_ok \in BOOLEAN :
                LET r == Connect(h, connect_ok) IN
                /\ src_pg' = h
                /\ last_secret' = SecretCall(h)
                /\ IF r.status = "raise"
                   THEN Raise(r.exc, "get_conn") /\ UNCHANGED opened
                   ELSE /\ opened' = Append(opened, Opened("src", r.conn, FALSE))
                        /\ Goto("tos3_copy")
    /\ UNCHANGED <<argVars, dest_pg, calls, fetched, loadVars, s3Vars, dumpVars>>

\* cursor.copy_to(f_plain, '(sql)', null='') inside try/except Exception
ToS3CopyTo ==
    /\ task = "to_s3" /\ pc = "tos3_copy"
    /\ \E ok \in BOOLEAN :
        /\ calls' = Append(calls, Call("copy_to", ok, 0))
        /\ IF ok THEN Goto("tos3_compress")
           ELSE RaiseFrom(AirflowException(Exc("ProgrammingError", "copy_to")),
                          Exc("ProgrammingError", "copy_to"), "copy_to")
    /\ UNCHANGED <<argVars, hookVars, last_secret, opened, fetched, loadVars, s3Vars, dumpVars>>

\* if self.compress_file: gzip f_plain into f_compressed
ToS3Compress ==
    /\ task = "to_s3" /\ pc = "tos3_compress"
    /\ \E ok \in BOOLEAN :
        IF compress_file /\ ~ok
        THEN Raise(Exc("OSError", "gzip"), "compress")
        ELSE Goto("tos3_upload")
    /\ UNCHANGED <<argVars, hookVars, last_secret, opened, calls, fetched, loadVars, s3Vars, dumpVars>>

\* dest_s3.load_file(..., replace=self.dest_s3_replace); list_keys
ToS3LoadFile ==
    /\ task = "to_s3" /\ pc = "tos3_upload"
    /\ \E ok \in BOOLEAN :
        IF ~dest_s3_replace /\ DestKey \in bucket
        THEN /\ Raise(Exc("ValueError", "The key dest_key already exists."), "load_file")
             /\ UNCHANGED s3Vars
        ELSE IF ~ok
        THEN /\ Raise(Exc("S3UploadFailedError", "load_file"), "load_file")
             /\ UNCHANGED s3Vars
        ELSE /\ bucket' = bucket \cup {DestKey}
             /\ uploads' = Append(uploads,
                    Upload(DestKey, IF compress_file THEN "f_compressed" ELSE "f_plain"))
             /\ Return
    /\ UNCHANGED <<argVars, hookVars, last_secret, opened, calls, fetched, loadVars,
                   dumpVars>>

InitToS3 ==
    /\ task = "to_s3" /\ pc = "tos3_conn"
    /\ secrets \in [SecretNames -> FewResponses("src") \cup {ClientError("AccessDeniedException")}]
    /\ secrets["dest_secret"] = ClientError("AccessDeniedException")
    /\ secrets["src_secret"] \in FewResponses("src")
    /\ database = NoneV /\ host = NoneV
    /\ src_postgres_conn \in ConnDicts("src") /\ dest_postgres_conn = EmptyDict
    /\ postgres_conn = EmptyDict
    /\ pg_preoperator = NoneV /\ pg_postoperator = NoneV
    /\ s3_content = <<>>
    /\ compress_file \in BOOLEAN /\ dest_s3_replace \in BOOLEAN
    /\ bucket \in {{}, {DestKey}}
    /\ module_globals = {}

-----------------------------------------------------------------------------
(* PostgresDumpOperator                                                    *)

KeyTemplate == "{instance_identifier}/{db_name}/{year}/{month}/{dump_name}"

\* self.s3_key_name.format(...): the template with its fields filled in
\* (db_name "db", the clock at 2026-11-01 12:00:00)
FormatKey(instance_identifier) ==
    instance_identifier \o "/" \o "db" \o "/" \o "2026" \o "/" \o "11" \o "/"
        \o "dump_db_20261101_120000.dmp"

\* the temporary files execute creates
DumpFile == "dump_file"
DumpMd5 == "dump_file_md5"
EncryptedFile == "encrypted_file"
EncryptedMd5 == "encrypted_file_md5"

\* a list that sends the dump itself in place of the encrypted dump
FilesToTransfer_plain ==
    << [file |-> DumpFile,      ext |-> ".encrypted"],
       [file |-> DumpMd5,       ext |-> ".md5"],
       [file |-> EncryptedMd5,  ext |-> ".encrypted.md5"] >>

\* files_to_transfer
FilesToTransfer ==
    << [file |-> EncryptedFile, ext |-> ".encrypted"],
       [file |-> DumpMd5,       ext |-> ".md5"],
       [file |-> EncryptedMd5,  ext |-> ".encrypted.md5"] >>

\* the delete_file calls at the end of execute, in order
FilesToDelete == <<DumpFile, EncryptedFile, DumpMd5, EncryptedMd5>>

\* what os.remove can do: remove the file, or raise one of these
RemoveErrors == {"FileNotFoundError", "PermissionError"}
RemoveResults == {"removed"} \cup RemoveErrors

\* a handler that catches the missing file only
CatchesOnlyNotFound(err) == err = "FileNotFoundError"

\* delete_file: except OSError catches every error os.remove raises
DeleteFileCatches(err) == err \in RemoveErrors

\* secret_manager = AwsSecretsManagerHook(...); 
\* self.aws_secret_key = ast.literal_eval(secret_manager.get_secret())
DumpGetSecret ==
    /\ task = "dump" /\ pc = "dump_secret"
    /\ LET h == Hook(Str("aws_default"), Str("src_secret"), NoneV, NoneV)
           ret == get_secret(secrets["src_secret"]) IN
       /\ last_secret' = SecretCall(h)
       /\ IF ret.status = "raise"
          THEN Raise(ret.exc, "get_secret") /\ UNCHANGED aws_secret_key
          ELSE IF literal_eval_fails(ret)
          THEN /\ Raise(Exc("ValueError", "malformed node or string"), "literal_eval")
               /\ UNCHANGED aws_secret_key
          ELSE aws_secret_key' = literal_eval(ret) /\ Goto("dump_extract")
    /\ UNCHANGED <<argVars, hookVars, opened, calls, fetched, loadVars, s3Vars,
                   module_globals, disk, environ, bash_command, s3_key_name,
                   listing, deletes>>

\* the pg_dump command line that extract_dump composes
PgDumpCommand(key, filename) ==
    <<Str("pg_dump"), Str("-v"), Str("-Ft"), Str("-h"), key["host"],
      Str("-U"), key["username"], Str("-d"), Str("db"), Str("-f"), Str(filename),
      Str("")>>

\* extract_dump: the temporary file, PGPASSWORD, the command, BashHook
DumpExtract ==
    /\ task = "dump" /\ pc = "dump_extract"
    /\ disk' = disk \cup {DumpFile}
    /\ \E ok \in BOOLEAN :
        IF ~HasKey(aws_secret_key, "password")
        THEN /\ Raise(Exc("KeyError", "password"), "extract_dump")
             /\ UNCHANGED <<environ, bash_command, calls>>
        ELSE /\ environ' = aws_secret_key["password"]
             /\ IF ~HasKey(aws_secret_key, "host") \/ ~HasKey(aws_secret_key, "username")
                THEN /\ Raise(Exc("KeyError", "host"), "extract_dump")
                     /\ UNCHANGED <<bash_command, calls>>
                ELSE /\ bash_command' = PgDumpCommand(aws_secret_key, DumpFile)
                     /\ calls' = Append(calls, Call("extract_dump", ok, 0))
                     /\ IF ok THEN Goto("dump_hash")
                        ELSE Raise(Exc("AirflowException", "Bash command failed"),
                                   "extract_dump")
    /\ UNCHANGED <<argVars, hookVars, last_secret, opened, fetched, loadVars,
                   s3Vars, module_globals, aws_secret_key, s3_key_name, listing,
                   deletes>>

\* calculate_file_hash(file_name): a new temporary file holding the md5
CalculateFileHash(md5_file, at, next) ==
    /\ disk' = disk \cup {md5_file}
    /\ \E ok \in BOOLEAN :
        /\ calls' = Append(calls, Call(at, ok, 0))
        /\ IF ok THEN Goto(next)
           ELSE RaiseFrom(AirflowException(Exc("OSError", "md5sum")),
                          Exc("OSError", "md5sum"), at)
    /\ UNCHANGED <<argVars, hookVars, last_secret, opened, fetched, loadVars,
                   s3Vars, module_globals, aws_secret_key, environ, bash_command,
                   s3_key_name, listing, deletes>>

DumpHashPlain ==
    /\ task = "dump" /\ pc = "dump_hash"
    /\ CalculateFileHash(DumpMd5, "calculate_file_hash", "dump_encrypt")

\* encrypt_dump: the temporary file, then AWSKMSHook(...).encrypt_file(...)
\* inside try/except Exception.  The module never imports AWSKMSHook: the
\* name is looked up in the module's namespace when the call is made, and
\* is found there only if something outside the module has bound it.
DumpEncrypt ==
    /\ task = "dump" /\ pc = "dump_encrypt"
    /\ disk' = disk \cup {EncryptedFile}
    /\ \E ok \in BOOLEAN :
        IF "AWSKMSHook" \notin module_globals
        THEN /\ calls' = Append(calls, Call("encrypt_dump", FALSE, 0))
             /\ RaiseFrom(AirflowException(Exc("NameError", "name 'AWSKMSHook' is not defined")),
                          Exc("NameError", "name 'AWSKMSHook' is not defined"), "encrypt_dump")
        ELSE /\ calls' = Append(calls, Call("encrypt_dump", ok, 0))
             /\ IF ~ok
                THEN RaiseFrom(AirflowException(Exc("ClientError", "encrypt_file")),
                               Exc("ClientError", "encrypt_file"), "encrypt_dump")
                ELSE Goto("dump_hash_enc")
    /\ UNCHANGED <<argVars, hookVars, last_secret, opened, fetched, loadVars,
                   s3Vars, module_globals, aws_secret_key, environ, bash_command,
                   s3_key_name, listing, deletes>>

DumpHashEncrypted ==
    /\ task = "dump" /\ pc = "dump_hash_enc"
    /\ CalculateFileHash(EncryptedMd5, "calculate_file_hash_encrypted", "dump_key")

\* send_files_to_s3: self.s3_key_name = self.s3_key_name.format(...)
DumpFormatKey ==
    /\ task = "dump" /\ pc = "dump_key"
    /\ IF ~HasKey(aws_secret_key, "dbInstanceIdentifier")
       THEN /\ Raise(Exc("KeyError", "dbInstanceIdentifier"), "send_files_to_s3")
            /\ UNCHANGED s3_key_name
       ELSE /\ s3_key_name' = FormatKey(aws_secret_key["dbInstanceIdentifier"].s)
            /\ Goto("dump_upload")
    /\ UNCHANGED <<argVars, hookVars, last_secret, opened, calls, fetched, loadVars,
                   s3Vars, module_globals, aws_secret_key, disk, environ, bash_command,
                   listing, deletes>>

\* one turn of the loop: dest_s3.load_file(file['file'], key=..., replace=True)
DumpLoadFile ==
    /\ task = "dump" /\ pc = "dump_upload"
    /\ Len(uploads) < Len(FilesToTransfer)
    /\ LET f == FilesToTransfer[Len(uploads) + 1]
           key_name == S3Key(s3_key_name, f.ext) IN
       \E ok \in BOOLEAN :
           IF ok
           THEN /\ bucket' = bucket \cup {key_name}
                /\ uploads' = Append(uploads, Upload(key_name, f.file))
                /\ Goto("dump_upload")
           ELSE /\ Raise(Exc("S3UploadFailedError", "load_file"), "send_files_to_s3")
                /\ UNCHANGED s3Vars
    /\ UNCHANGED <<argVars, hookVars, last_secret, opened, calls, fetched, loadVars,
                   dumpVars>>

\* files = dest_s3.list_keys(self.s3_bucket_name, prefix=self.s3_key_name)
DumpListKeys ==
    /\ task = "dump" /\ pc = "dump_upload"
    /\ Len(uploads) = Len(FilesToTransfer)
    /\ \E ok \in BOOLEAN :
        IF ok
        THEN /\ listing' = {k \in bucket : k.base = s3_key_name}
             /\ Goto("dump_cleanup")
        ELSE /\ Raise(Exc("ClientError", "list_keys"), "send_files_to_s3")
             /\ UNCHANGED listing
    /\ UNCHANGED <<argVars, hookVars, last_secret, opened, calls, fetched, loadVars,
                   s3Vars, module_globals, aws_secret_key, disk, environ, bash_command,
                   s3_key_name, deletes>>

\* self.delete_file(...): os.remove inside try/except OSError; after the
\* fourth call execute returns
DumpDeleteFile ==
    /\ task = "dump" /\ pc = "dump_cleanup"
    /\ LET f == FilesToDelete[Len(deletes) + 1] IN
       \E res \in RemoveResults :
           /\ res = "FileNotFoundError" <=> f \notin disk
           /\ deletes' = Append(deletes, [file |-> f, result |-> res])
           /\ disk' = IF res = "removed" THEN disk \ {f} ELSE disk
           /\ IF res \in RemoveErrors /\ ~DeleteFileCatches(res)
              THEN Raise(Exc(res, f), "delete_file")
              ELSE IF Len(deletes) + 1 = Len(FilesToDelete) THEN Return
              ELSE Goto("dump_cleanup")
    /\ UNCHANGED <<argVars, hookVars, last_secret, opened, calls, fetched, loadVars,
                   s3Vars, module_globals, aws_secret_key, environ, bash_command,
                   s3_key_name, listing>>

\* the temporary directory is shared: another process may remove a file
TmpReaper ==
    /\ task = "dump" /\ pc = "dump_cleanup"
    /\ \E f \in disk : disk' = disk \ {f}
    /\ UNCHANGED <<ctlVars, argVars, hookVars, last_secret, opened, calls, fetched,
                   loadVars, s3Vars, module_globals, aws_secret_key, environ,
                   bash_command, s3_key_name, listing, deletes>>

InitDump ==
    /\ task = "dump" /\ pc = "dump_secret"
    /\ secrets \in [SecretNames ->
            {OkString(GoodPayload("src")), OkString(BasePayload("src")),
             OkString(PopRest(GoodPayload("src"), "dbInstanceIdentifier")),
             ClientError("ResourceNotFoundException")}]
    /\ secrets["dest_secret"] = ClientError("ResourceNotFoundException")
    /\ database = NoneV /\ host = NoneV
    /\ src_postgres_conn = EmptyDict /\ dest_postgres_conn = EmptyDict
    /\ postgres_conn = EmptyDict
    /\ pg_preoperator = NoneV /\ pg_postoperator = NoneV
    /\ s3_content = <<>>
    /\ compress_file = FALSE /\ dest_s3_replace = FALSE
    /\ bucket \in {{}, {S3Key("other/key", "")},
                   {S3Key(FormatKey("src_instance"), ".md5")}}
    /\ module_globals \in {{}, {"AWSKMSHook"}}

-----------------------------------------------------------------------------

Init ==
    /\ outcome = "running" /\ exc = NoExc /\ raised_at = "" /\ cause = NoExc
    /\ file_read = <<>> /\ autocommit = FALSE /\ commits = 0
    /\ loaded = <<>> /\ durable = <<>>
    /\ uploads = <<>>
    /\ aws_secret_key = EmptyDict /\ disk = {} /\ environ = NoneV
    /\ bash_command = <<>> /\ s3_key_name = KeyTemplate /\ listing = {}
    /\ deletes = <<>>
    /\ src_pg = NoHook /\ dest_pg = NoHook
    /\ last_secret = NoSecretCall
    /\ opened = <<>> /\ calls = <<>> /\ fetched = <<>>
    /\ \/ InitRun
       \/ InitP2P
       \/ InitS3Load
       \/ InitToS3
       \/ InitDump
    /\ src_given = src_postgres_conn

Next ==
    \/ RunBuildHook
    \/ RunSql
    \/ P2PBuildHooks
    \/ P2PSrcConn
    \/ P2PExecute
    \/ P2PPreoperator
    \/ P2PFetchall
    \/ P2PInsertRows
    \/ P2PPostoperator
    \/ S3LoadReadKey
    \/ S3LoadSkipHeader
    \/ S3LoadGetConn
    \/ S3LoadPreoperator
    \/ S3LoadCopyFrom
    \/ S3LoadCommit
    \/ S3LoadPostoperator
    \/ ToS3GetConn
    \/ ToS3CopyTo
    \/ ToS3Compress
    \/ ToS3LoadFile
    \/ DumpGetSecret
    \/ DumpExtract
    \/ DumpHashPlain
    \/ DumpEncrypt
    \/ DumpHashEncrypted
    \/ DumpFormatKey
    \/ DumpLoadFile
    \/ DumpListKeys
    \/ DumpDeleteFile
    \/ TmpReaper

Spec == Init /\ [][Next]_vars

-----------------------------------------------------------------------------
(* Properties                                                              *)

Idx(op) == {i \in DOMAIN calls : calls[i].op = op}
Done == pc = "done"

\* C1: in PostgresToPostgresOperator.execute, once fetchall has returned an
\* empty result set, insert_rows is never called, the post-operator is never
\* run, and execute has returned without raising.
C1_EmptyResultIsNoOp ==
    (task = "p2p" /\ \E i \in Idx("fetchall") : calls[i].ok /\ calls[i].n = 0)
        => /\ Idx("insert_rows") = {}
           /\ Idx("post") = {}
           /\ Done /\ outcome = "returned" /\ exc = NoExc

C1_Witness ==
    /\ task = "p2p" /\ Done /\ outcome = "returned"
    /\ Truthy(pg_postoperator)
    /\ \E i \in Idx("fetchall") : calls[i].ok /\ calls[i].n = 0

\* C2: in PostgresToPostgresOperator.execute the pre-operator, the insert
\* and the post-operator each run at most once; a pre-operator that is given
\* has completed before the insert starts; the post-operator starts only
\* after the insert has completed successfully, and, when given, has run by
\* the time execute returns with a non-empty result set.
C2_PreInsertPostOrder ==
    task = "p2p" =>
        /\ \A op \in {"pre", "insert_rows", "post"} : Cardinality(Idx(op)) <= 1
        /\ \A j \in Idx("insert_rows") :
              /\ calls[j].n > 0
              /\ Truthy(pg_preoperator) => \E i \in Idx("pre") : i < j /\ calls[i].ok
              /\ \A i \in Idx("pre") : i < j
        /\ \A k \in Idx("post") :
              /\ Truthy(pg_postoperator)
              /\ \E j \in Idx("insert_rows") : j < k /\ calls[j].ok
        /\ (Done /\ outcome = "returned" /\ Len(fetched) > 0 /\ Truthy(pg_postoperator))
              => Idx("post") # {}

C2_Witness ==
    /\ task = "p2p" /\ Done /\ outcome = "returned"
    /\ Len(fetched) > 0
    /\ \E i \in Idx("pre"), j \in Idx("insert_rows"), k \in Idx("post") :
          i < j /\ j < k

\* C3: whenever the secrets service rejects the request with a client error,
\* get_secret raises to its caller; it returns only on success, and then a
\* payload (the SecretString or the SecretBinary), never nothing.
C3_GetSecretRaisesOnClientError ==
    last_secret.called =>
        /\ last_secret.kind = "ClientError" => last_secret.status = "raise"
        /\ last_secret.status = "return" =>
              /\ last_secret.kind = "ok"
              /\ last_secret.t \in {"str", "bytes"}

\* The payload of a secret, as a dict, when the service returns it as text
SecretOf(name) == literal_eval(get_secret(secrets[name]))

\* the value a connection must get for a key: the caller's when given
Wins(given, d, k, key, sk) ==
    IF HasKey(d, k) /\ Truthy(d[k]) THEN given = d[k] ELSE given = key[sk]

\* C4: every connection is opened with the caller's host and database
\* override when one was given and with the secret's value otherwise; in
\* PostgresToPostgresOperator the destination connection takes the overrides
\* of dest_postgres_conn and the source connection those of src_postgres_conn.
C4_OverridePrecedence ==
    \A i \in DOMAIN opened :
        LET c == opened[i].conn IN
        /\ (task = "p2p" /\ opened[i].role = "src") =>
              /\ Wins(c.dbname, src_given, "database", SecretOf("src_secret"), "dbname")
              /\ Wins(c.host, src_given, "host", SecretOf("src_secret"), "host")
        /\ (task = "p2p" /\ opened[i].role = "dest") =>
              /\ Wins(c.dbname, dest_postgres_conn, "database", SecretOf("dest_secret"), "dbname")
              /\ Wins(c.host, dest_postgres_conn, "host", SecretOf("dest_secret"), "host")
        /\ task = "run" =>
              /\ c.dbname = Or(database, SecretOf("src_secret")["dbname"])
              /\ c.host = Or(host, SecretOf("src_secret")["host"])

\* the secret texts C5 is about: every field present as a string, the port a
\* number, or absent, null or 0
ValidPortTokens == {Num(5432), Num(6543), Num(0), Name("None"), Name("null")}
ValidPayload(raw) ==
    /\ \A k \in DOMAIN BasePayload("src") : HasKey(raw, k) /\ raw[k].t = "str"
    /\ HasKey(raw, "port") => raw["port"] \in ValidPortTokens

\* C5: get_conn, for a valid secret text and no override, opens the
\* connection with the secret's username, password, host and dbname and its
\* port, and with port 5432 when the port is absent, null or 0; it does not
\* fail on such a secret.
C5_ConnectionFromSecret ==
    (/\ task = "run" /\ Done
     /\ ~Truthy(database) /\ ~Truthy(host)
     /\ secrets["src_secret"].kind = "ok" /\ secrets["src_secret"].has_string
     /\ ValidPayload(secrets["src_secret"].raw))
    => LET raw == secrets["src_secret"].raw IN
       /\ exc.cls \notin {"KeyError", "ValueError"}
       /\ \A i \in DOMAIN opened :
             /\ opened[i].conn.user = raw["username"]
             /\ opened[i].conn.password = raw["password"]
             /\ opened[i].conn.host = raw["host"]
             /\ opened[i].conn.dbname = raw["dbname"]
             /\ opened[i].conn.port =
                   IF HasKey(raw, "port") /\ raw["port"].t = "int" /\ raw["port"].n # 0
                   THEN raw["port"] ELSE Num(DefaultPort)

\* The lines of a text file: the stretches between newlines, the last one
\* with or without a newline after it.
NLPos(text) == {i \in 1..Len(text) : text[i] = NL}
NumLines(text) ==
    Cardinality(NLPos(text)) + (IF text # <<>> /\ text[Len(text)] # NL THEN 1 ELSE 0)
\* where line k ends: at the k-th newline, or at the end of the text
LineEnd(text, k) ==
    IF k <= Cardinality(NLPos(text))
    THEN CHOOSE i \in NLPos(text) : Cardinality({j \in NLPos(text) : j <= i}) = k
    ELSE Len(text) + 1
LinesOf(text) ==
    [k \in 1..NumLines(text) |->
        SubSeq(text, IF k = 1 THEN 1 ELSE LineEnd(text, k - 1) + 1, LineEnd(text, k) - 1)]

\* C6: in S3ToPostgresOperator.execute, for a downloaded file of n >= 1
\* lines, reading the header never fails, the bulk load is handed exactly
\* n - 1 rows, and a load that succeeds puts exactly lines 2..n of the file,
\* in order, into the destination table.
C6_HeaderSkipped ==
    (task = "from_s3" /\ NumLines(s3_content) >= 1) =>
        /\ exc.cls # "StopIteration"
        /\ \A i \in Idx("copy_from") :
              /\ calls[i].n = NumLines(s3_content) - 1
              /\ calls[i].ok => loaded = Tail(LinesOf(s3_content))

C6_Witness ==
    /\ task = "from_s3" /\ Done /\ outcome = "returned"
    /\ NumLines(s3_content) = 5
    /\ Len(loaded) = 4
    /\ loaded = Tail(LinesOf(s3_content))
    /\ \E k \in 1..4 : loaded[k] # <<>>

\* C7: in S3ToPostgresOperator.execute the bulk load runs with autocommit
\* disabled; at most one commit is issued, only after the load succeeded,
\* and exactly one when execute returns; when the load fails nothing is
\* committed and no row is durable.
C7_SingleCommitAfterLoad ==
    task = "from_s3" =>
        /\ \A i \in Idx("copy_from") : ~autocommit
        /\ Cardinality(Idx("commit")) <= 1
        /\ \A k \in Idx("commit") : \E i \in Idx("copy_from") : i < k /\ calls[i].ok
        /\ (Done /\ outcome = "returned") => commits = 1
        /\ (\E i \in Idx("copy_from") : ~calls[i].ok) => (commits = 0 /\ durable = <<>>)

\* the statements that move the data
DataMovingSteps == {"execute", "fetchall", "insert_rows", "copy_to", "copy_from"}

\* C8: a failure raised by the data-moving step of a transfer operator
\* (execute, fetchall, insert_rows; copy_to; copy_from) leaves execute as an
\* AirflowException that carries the message of the original exception,
\* never as the original exception itself.
C8_FailuresWrapped ==
    (Done /\ outcome = "raised" /\ raised_at \in DataMovingSteps) =>
        /\ exc.cls = "AirflowException"
        /\ exc.msg = cause.msg
        /\ cause.cls # "AirflowException"

\* C9: delete_file never raises, whether the file is missing or its removal
\* fails: no exception leaves execute from a delete_file call, and once the
\* cleanup has begun execute ends only by returning, after delete_file has
\* been called on the dump, the encrypted dump and the two checksum files.
C9_DeleteFileNeverRaises ==
    task = "dump" =>
        /\ raised_at # "delete_file"
        /\ (Done /\ deletes # <<>>) =>
              /\ outcome = "returned" /\ exc = NoExc
              /\ [i \in DOMAIN deletes |-> deletes[i].file] = FilesToDelete

C9_Witness ==
    /\ task = "dump" /\ Done /\ outcome = "returned"
    /\ \E i \in DOMAIN deletes : deletes[i].result = "FileNotFoundError"
    /\ \E i \in DOMAIN deletes : deletes[i].result = "PermissionError"

\* the failures of the services execute calls: Secrets Manager, pg_dump,
\* the file system, KMS, S3
ExternalFailure ==
    \/ secrets["src_secret"].kind # "ok"
    \/ ~secrets["src_secret"].has_string
    \/ \E k \in DOMAIN BasePayload("src") : ~HasKey(secrets["src_secret"].raw, k)
    \/ cause \in {Exc("AirflowException", "Bash command failed"), Exc("OSError", "md5sum"),
                  Exc("ClientError", "encrypt_file"), Exc("S3UploadFailedError", "load_file"),
                  Exc("ClientError", "list_keys")}
    \/ \E i \in DOMAIN deletes : deletes[i].result # "removed"

\* the three keys execute is to write
DumpKeys ==
    {S3Key(FormatKey("src_instance"), e) : e \in {".encrypted", ".md5", ".encrypted.md5"}}

\* C10: when no external call fails, PostgresDumpOperator.execute returns,
\* having uploaded exactly three objects, the encrypted dump and the two
\* checksum files, under the formatted key followed by .encrypted, .md5 and
\* .encrypted.md5, and having deleted the four temporary files; the listing
\* under the key is exactly those three keys.
C10_DumpCompletes ==
    (task = "dump" /\ Done /\ ~ExternalFailure) =>
        /\ outcome = "returned"
        /\ uploads = << Upload(S3Key(FormatKey("src_instance"), ".encrypted"), EncryptedFile),
                        Upload(S3Key(FormatKey("src_instance"), ".md5"), DumpMd5),
                        Upload(S3Key(FormatKey("src_instance"), ".encrypted.md5"), EncryptedMd5) >>
        /\ listing = DumpKeys
        /\ disk = {}

\* the temporary files PostgresDumpOperator.execute creates
TempFiles == {DumpFile, DumpMd5, EncryptedFile, EncryptedMd5}

\* C11: when PostgresDumpOperator.execute has returned or raised, at
\* whichever stage, none of the temporary files it created is left on disk.
C11_TempFilesReleased ==
    (task = "dump" /\ Done) => disk \cap TempFiles = {}

\* C12: when execute of a transfer operator has returned or raised, every
\* connection it opened through get_conn has been closed.
C12_ConnectionsClosed ==
    (task \in {"p2p", "to_s3", "from_s3"} /\ Done) =>
        \A i \in DOMAIN opened : opened[i].closed

\* the dump process has been run and has exited
DumpExited == task = "dump" /\ bash_command # <<>> /\ pc # "dump_extract"

\* C13: the password is never part of the pg_dump command line, and once
\* the dump process has exited PGPASSWORD no longer holds the password in
\* the environment of the task's process.
C13_PasswordScoped ==
    task = "dump" =>
        /\ \A i \in DOMAIN bash_command : bash_command[i] # aws_secret_key["password"]
        /\ DumpExited => environ # aws_secret_key["password"]

\* C14: in PostgresToPostgresOperator.execute the pre-operator
\* runs only after fetchall has returned the whole result set, and a failed
\* fetchall leaves the destination untouched by the pre-operator.
C14_PreAfterFetch ==
    task = "p2p" =>
        /\ \A i \in Idx("pre") : \E f \in Idx("fetchall") : f < i /\ calls[f].ok
        /\ (\E f \in Idx("fetchall") : ~calls[f].ok) => Idx("pre") = {}

\* the stages that precede the upload, in the order execute runs them
DumpStages ==
    <<"extract_dump", "calculate_file_hash", "encrypt_dump",
      "calculate_file_hash_encrypted">>

\* C15: in PostgresDumpOperator.execute the unencrypted dump file is never
\* uploaded, and an object is uploaded only after the dump, the checksum of
\* the dump, the encryption and the checksum of the encrypted file have
\* each completed successfully, in that order.
C15_OnlyEncryptedUploaded ==
    task = "dump" =>
        /\ \A i \in DOMAIN uploads : uploads[i].file # DumpFile
        /\ uploads # <<>> =>
              /\ Len(calls) = Len(DumpStages)
              /\ \A k \in DOMAIN calls : calls[k].op = DumpStages[k] /\ calls[k].ok

\* an upload has been made and a later one has failed
C15_Witness ==
    /\ task = "dump" /\ Done /\ outcome = "raised" /\ raised_at = "send_files_to_s3"
    /\ Len(uploads) = 2

=============================================================================
